---- MODULE Spec2Model ----
(***************************************************************************)
(* Doubly-linked list with random pointers and its binary serialization    *)
(* (src/DoublyLinkedListSerializer.cpp).                                   *)
(*                                                                         *)
(* The list object is modelled as a small heap of ListNode records plus    *)
(* head, tail and count.  The stream is a sequence of bytes; 32-bit words  *)
(* are written and read as four bytes, least significant first, and the    *)
(* signed cross index is kept in two's complement.                         *)
(*                                                                         *)
(* Driver: as in the tests of the source file, a file is written by        *)
(* Serialize and then read back by Deserialize.  While a file is pending   *)
(* the driver may damage one of its cross-index fields (a foreign or       *)
(* corrupted stream), clear the list, or remove the file; AddNode and      *)
(* SetRand are explored when no file is pending, and a null FILE* is what  *)
(* the driver gets when there is no file.                                  *)
(***************************************************************************)
EXTENDS Integers, Sequences, FiniteSets, TLC

\* ------------------------------------------------------------------ bounds

MaxNodes == 2

\* nullptr
NULL == 0

Addrs == 1..MaxNodes

Payloads == {<<>>, <<65>>, <<66, 67>>}

\* arguments tried for SetRand: one below and one above every valid index
RandArgs == (-1)..MaxNodes

\* values a damaged cross-index field of a file of n records may hold: far and
\* just below the valid range, the first valid index, just and far above it
CorruptIdx(n) == {-2147483647, -2, 0, n, 2147483647}

VARIABLES list, file, fs, op, pre

vars == <<list, file, fs, op, pre>>

\* ------------------------------------------------------------ list object

ListNode(data) == [prev |-> NULL, next |-> NULL, rand |-> NULL, data |-> data]

EmptyList == [heap |-> <<>>, head |-> NULL, tail |-> NULL, count |-> 0]

\* new ListNode(): an address not in use.  The program never looks at the value
\* of a pointer (it only compares and hashes them), so the allocator is taken to
\* hand out the highest unused address: a node's address is then never its index.
NewAddrs(used) ==
  LET free == Addrs \ used IN {a \in free : \A b \in free : a >= b}

Alloc(heap, a, node) == [x \in DOMAIN heap \cup {a} |-> IF x = a THEN node ELSE heap[x]]

\* while (node) { ...; node = node->next; }
RECURSIVE Walk(_, _, _)
Walk(heap, node, fuel) ==
  IF node = NULL \/ fuel = 0 THEN <<>>
  ELSE IF node \notin DOMAIN heap THEN <<node>>
  ELSE <<node>> \o Walk(heap, heap[node].next, fuel - 1)

Fuel == MaxNodes + 2

\* mutant: the new node is linked before head instead of after tail
AddNodeOpPrepends(L, data, newNode) ==
  LET h1 == Alloc(L.heap, newNode, ListNode(data)) IN
  IF L.head = NULL
  THEN [heap |-> h1, head |-> newNode, tail |-> newNode, count |-> L.count + 1]
  ELSE [heap |-> [h1 EXCEPT ![L.head].prev = newNode, ![newNode].next = L.head],
        head |-> newNode, tail |-> L.tail, count |-> L.count + 1]

\* mutant: count++ is missing
AddNodeOpNoCount(L, data, newNode) ==
  LET h1 == Alloc(L.heap, newNode, ListNode(data)) IN
  IF L.head = NULL
  THEN [heap |-> h1, head |-> newNode, tail |-> newNode, count |-> L.count]
  ELSE [heap |-> [h1 EXCEPT ![L.tail].next = newNode, ![newNode].prev = L.tail],
        head |-> L.head, tail |-> newNode, count |-> L.count]

AddNodeOp(L, data, newNode) ==
  LET h1 == Alloc(L.heap, newNode, ListNode(data)) IN
  IF L.head = NULL
  THEN [heap |-> h1, head |-> newNode, tail |-> newNode, count |-> L.count + 1]
  ELSE [heap |-> [h1 EXCEPT ![L.tail].next = newNode, ![newNode].prev = L.tail],
        head |-> L.head, tail |-> newNode, count |-> L.count + 1]

\* for (i = 0; i < index; i++) node = node->next;
RECURSIVE Advance(_, _, _)
Advance(heap, node, steps) ==
  IF steps = 0 THEN node ELSE Advance(heap, heap[node].next, steps - 1)

SetRandSkips(L, nodeIndex, randIndex) ==
  nodeIndex < 0 \/ nodeIndex >= L.count \/ randIndex < 0 \/ randIndex >= L.count

\* mutant: a rand index out of range resets the cross reference instead of
\* leaving it alone
SetRandOpResets(L, nodeIndex, randIndex) ==
  IF nodeIndex < 0 \/ nodeIndex >= L.count THEN L
  ELSE LET node == Advance(L.heap, L.head, nodeIndex) IN
       IF randIndex < 0 \/ randIndex >= L.count
       THEN [L EXCEPT !.heap[node].rand = NULL]
       ELSE [L EXCEPT !.heap[node].rand = Advance(L.heap, L.head, randIndex)]

SetRandOp(L, nodeIndex, randIndex) ==
  IF SetRandSkips(L, nodeIndex, randIndex) THEN L
  ELSE LET node == Advance(L.heap, L.head, nodeIndex)
           randNode == Advance(L.heap, L.head, randIndex)
       IN [L EXCEPT !.heap[node].rand = randNode]

\* mutant: head, tail and count are reset but the nodes are not deleted
ClearOpKeepsNodes(L) == [heap |-> L.heap, head |-> NULL, tail |-> NULL, count |-> 0]

\* every node reached from head is deleted; head, tail and count are reset
ClearOp(L) ==
  LET nodes == Walk(L.heap, L.head, Fuel)
      gone == {nodes[k] : k \in 1..Len(nodes)}
  IN
  [heap |-> [x \in DOMAIN L.heap \ gone |-> L.heap[x]],
   head |-> NULL, tail |-> NULL, count |-> 0]

\* ------------------------------------------------------------ byte stream

\* fwrite(&v, sizeof(uint32_t), 1, file): four bytes, least significant first
U32Bytes(v) ==
  <<v % 256, (v \div 256) % 256, (v \div 65536) % 256, (v \div 16777216) % 256>>

\* fwrite(&randIndex, sizeof(int32_t), 1, file): two's complement
I32Bytes(v) ==
  IF v >= 0 THEN U32Bytes(v)
  ELSE LET w == v + 2147483647 + 1 IN
       <<w % 256, (w \div 256) % 256, (w \div 65536) % 256, (w \div 16777216) + 128>>

\* the uint32_t held by the four bytes after the first pos bytes
U32At(stream, pos) ==
  stream[pos + 1] + 256 * stream[pos + 2] + 65536 * stream[pos + 3]
    + 16777216 * stream[pos + 4]

\* the int32_t held by the four bytes after the first pos bytes
I32At(stream, pos) ==
  stream[pos + 1] + 256 * stream[pos + 2] + 65536 * stream[pos + 3]
    + 16777216 * (IF stream[pos + 4] >= 128 THEN stream[pos + 4] - 256 ELSE stream[pos + 4])

\* ---------------------------------------------------------------- Serialize

\* mutant: indices are numbered from 1
NodeToIndexOneBased(nodes) ==
  [a \in {nodes[k] : k \in 1..Len(nodes)} |->
     CHOOSE k \in 1..Len(nodes) : nodes[k] = a]

\* nodeToIndex[nodes[i]] = i, later entries overwriting earlier ones
NodeToIndex(nodes) ==
  [a \in {nodes[k] : k \in 1..Len(nodes)} |->
     (CHOOSE k \in 1..Len(nodes) :
        nodes[k] = a /\ \A m \in 1..Len(nodes) : nodes[m] = a => m <= k) - 1]

\* mutant: the map is asked without the nullptr test, and answers 0
RandIndexOfNoSentinel(node, nodeToIndex) ==
  IF node.rand \in DOMAIN nodeToIndex THEN nodeToIndex[node.rand] ELSE 0

\* randIndex = -1; if (node->rand != nullptr) randIndex = nodeToIndex[node->rand];
\* (operator[] of the map yields 0 for a key it does not hold)
RandIndexOf(node, nodeToIndex) ==
  IF node.rand # NULL
  THEN (IF node.rand \in DOMAIN nodeToIndex THEN nodeToIndex[node.rand] ELSE 0)
  ELSE -1

\* one record: dataSize, the data when dataSize > 0, randIndex
NodeRecord(node, nodeToIndex) ==
  U32Bytes(Len(node.data))
    \o (IF Len(node.data) > 0 THEN node.data ELSE <<>>)
    \o I32Bytes(RandIndexOf(node, nodeToIndex))

RECURSIVE WriteNodes(_, _, _, _)
WriteNodes(heap, nodes, k, nodeToIndex) ==
  IF k > Len(nodes) THEN <<>>
  ELSE NodeRecord(heap[nodes[k]], nodeToIndex) \o WriteNodes(heap, nodes, k + 1, nodeToIndex)

\* everything a Serialize without write failure puts on the stream
SerializeBytes(L) ==
  LET nodes == Walk(L.heap, L.head, Fuel) IN
  U32Bytes(L.count) \o WriteNodes(L.heap, nodes, 1, NodeToIndex(nodes))

\* -------------------------------------------------------------- Deserialize

\* mutant: the result of fread is not tested; value keeps its initial 0
ReadUint32Unchecked(stream, pos) ==
  IF pos + 4 > Len(stream) THEN [ok |-> TRUE, value |-> 0, pos |-> Len(stream)]
  ELSE [ok |-> TRUE, value |-> U32At(stream, pos), pos |-> pos + 4]

\* fread(&value, 4, 1, file) != 1 throws
ReadUint32(stream, pos) ==
  IF pos + 4 > Len(stream) THEN [ok |-> FALSE, value |-> 0, pos |-> pos]
  ELSE [ok |-> TRUE, value |-> U32At(stream, pos), pos |-> pos + 4]

\* dataSize, then dataSize bytes when dataSize > 0, then randIndex
ReadNode(stream, pos) ==
  LET size == ReadUint32(stream, pos)
      fail == [ok |-> FALSE, data |-> <<>>, randIndex |-> -1, pos |-> pos]
  IN IF ~size.ok THEN fail
     ELSE IF size.value > 0 /\ size.pos + size.value > Len(stream) THEN fail
     ELSE LET p == size.pos + size.value IN
          IF p + 4 > Len(stream) THEN fail
          ELSE [ok |-> TRUE,
                data |-> SubSeq(stream, size.pos + 1, p),
                randIndex |-> I32At(stream, p),
                pos |-> p + 4]

\* for (i = 0; i < newCount; i++) { readNode; push_back ... }
RECURSIVE ReadNodes(_, _, _, _, _, _)
ReadNodes(stream, pos, i, newCount, datas, randIndices) ==
  IF i >= newCount THEN [ok |-> TRUE, datas |-> datas, randIndices |-> randIndices]
  ELSE LET r == ReadNode(stream, pos) IN
       IF ~r.ok THEN [ok |-> FALSE, datas |-> datas, randIndices |-> randIndices]
       ELSE ReadNodes(stream, r.pos, i + 1, newCount,
                      Append(datas, r.data), Append(randIndices, r.randIndex))

\* the reading part of Deserialize: the count, then the records
ReadStream(stream) ==
  LET c == ReadUint32(stream, 0) IN
  IF ~c.ok THEN [ok |-> FALSE, newCount |-> 0, datas |-> <<>>, randIndices |-> <<>>]
  ELSE LET r == ReadNodes(stream, c.pos, 0, c.value, <<>>, <<>>) IN
       [ok |-> r.ok, newCount |-> c.value, datas |-> r.datas, randIndices |-> r.randIndices]

\* mutant: prev is never set
SetupLinksNoPrev(heap, nodes) ==
  LET n == Len(nodes) IN
  [a \in DOMAIN heap |->
     IF \E i \in 1..n : nodes[i] = a
     THEN LET i == CHOOSE i \in 1..n : nodes[i] = a IN
          [heap[a] EXCEPT !.next = IF i < n THEN nodes[i + 1] ELSE NULL]
     ELSE heap[a]]

\* prev and next of nodes[i] from its place in the vector alone
SetupLinks(heap, nodes) ==
  LET n == Len(nodes) IN
  [a \in DOMAIN heap |->
     IF \E i \in 1..n : nodes[i] = a
     THEN LET i == CHOOSE i \in 1..n : nodes[i] = a IN
          [heap[a] EXCEPT !.prev = IF i > 1 THEN nodes[i - 1] ELSE NULL,
                          !.next = IF i < n THEN nodes[i + 1] ELSE NULL]
     ELSE heap[a]]

\* randomIndex >= 0 && static_cast<size_t>(randomIndex) < n
RandInRange(randomIndex, n) == randomIndex >= 0 /\ randomIndex < n

\* mutant: an index above the range is clamped to the last node
ResolveRandClamps(nodes, randomIndex) ==
  IF randomIndex < 0 THEN NULL
  ELSE IF randomIndex < Len(nodes) THEN nodes[randomIndex + 1]
  ELSE nodes[Len(nodes)]

\* nodes[i]->rand = nodes[randomIndex] when the index is in range, else nullptr
ResolveRand(nodes, randomIndex) ==
  IF RandInRange(randomIndex, Len(nodes)) THEN nodes[randomIndex + 1] ELSE NULL

SetupRandPointers(heap, nodes, randIndices) ==
  LET n == Len(nodes) IN
  [a \in DOMAIN heap |->
     IF \E i \in 1..n : nodes[i] = a
     THEN LET i == CHOOSE i \in 1..n : nodes[i] = a IN
          [heap[a] EXCEPT !.rand = ResolveRand(nodes, randIndices[i])]
     ELSE heap[a]]

\* the nodes readNode made, in reading order, at the addresses rawNodes
RECURSIVE MakeNodes(_, _, _, _)
MakeNodes(heap, rawNodes, datas, k) ==
  IF k > Len(rawNodes) THEN heap
  ELSE MakeNodes(Alloc(heap, rawNodes[k], ListNode(datas[k])), rawNodes, datas, k + 1)

\* what a Deserialize that read the whole stream leaves
LinkList(cleared, r, rawNodes) ==
  LET h0 == MakeNodes(cleared.heap, rawNodes, r.datas, 1)
      h1 == SetupLinks(h0, rawNodes)
      h2 == SetupRandPointers(h1, rawNodes, r.randIndices)
  IN [heap |-> h2,
      head |-> IF r.newCount > 0 THEN rawNodes[1] ELSE NULL,
      tail |-> IF r.newCount > 0 THEN rawNodes[r.newCount] ELSE NULL,
      count |-> r.newCount]

\* the addresses n successive allocations may return, in order
RECURSIVE AllocOrders(_, _)
AllocOrders(used, n) ==
  IF n = 0 THEN {<<>>}
  ELSE UNION {{<<a>> \o s : s \in AllocOrders(used \cup {a}, n - 1)} : a \in NewAddrs(used)}

\* ------------------------------------------------- what a traversal shows

\* the nodes met from head by following next
Chain(L) == Walk(L.heap, L.head, Fuel)

\* 0-based place of address a in chain; -1 for nullptr, -2 for a node not in it
PosIn(chain, a) ==
  IF a = NULL THEN -1
  ELSE IF \E k \in 1..Len(chain) : chain[k] = a
       THEN (CHOOSE k \in 1..Len(chain) : chain[k] = a) - 1
       ELSE -2

\* per traversal position: the payload and the position of the node rand points to
View(L) ==
  LET c == Chain(L) IN
  [k \in 1..Len(c) |->
     IF c[k] \in DOMAIN L.heap
     THEN [data |-> L.heap[c[k]].data, rand |-> PosIn(c, L.heap[c[k]].rand)]
     ELSE [data |-> <<>>, rand |-> -2]]

\* ------------------------------------------------------------------ driver

NoFile == [exists |-> FALSE, bytes |-> <<>>]

\* what is known of the pending file: the list it was written from, the cross
\* index each record holds, whether the write was complete, whether a field
\* was damaged since
NoFs == [src |-> <<>>, stored |-> <<>>, complete |-> FALSE, damaged |-> FALSE]

Call(name, ok, i, j, data, null) ==
  [name |-> name, ok |-> ok, i |-> i, j |-> j, data |-> data, null |-> null]

Init ==
  /\ list = EmptyList
  /\ file = NoFile
  /\ fs = NoFs
  /\ op = Call("init", TRUE, 0, 0, <<>>, FALSE)
  /\ pre = EmptyList

AddNode(data) ==
  /\ ~file.exists
  /\ list.count < MaxNodes
  /\ \E newNode \in NewAddrs(DOMAIN list.heap) :
       list' = AddNodeOp(list, data, newNode)
  /\ op' = Call("AddNode", TRUE, 0, 0, data, FALSE)
  /\ pre' = list
  /\ UNCHANGED <<file, fs>>

SetRand(nodeIndex, randIndex) ==
  /\ ~file.exists
  /\ list' = SetRandOp(list, nodeIndex, randIndex)
  /\ op' = Call("SetRand", TRUE, nodeIndex, randIndex, <<>>, FALSE)
  /\ pre' = list
  /\ UNCHANGED <<file, fs>>

Clear ==
  /\ list' = ClearOp(list)
  /\ op' = Call("Clear", TRUE, 0, 0, <<>>, FALSE)
  /\ pre' = list
  /\ UNCHANGED <<file, fs>>

\* Serialize(nullptr): throws before anything is written
SerializeNull ==
  /\ ~file.exists
  /\ op' = Call("Serialize", FALSE, 0, 0, <<>>, TRUE)
  /\ pre' = list
  /\ UNCHANGED <<list, file, fs>>

\* Serialize on an open file: all bytes written, or an fwrite falls short after
\* written bytes and the call throws
Serialize ==
  \E bytes \in {SerializeBytes(list)}, view \in {View(list)} :
    \E written \in 0..Len(bytes) :
      /\ file' = [exists |-> TRUE, bytes |-> SubSeq(bytes, 1, written)]
      /\ fs' = [src |-> view,
                stored |-> [k \in 1..Len(view) |-> view[k].rand],
                complete |-> (written = Len(bytes)),
                damaged |-> FALSE]
      /\ op' = Call("Serialize", written = Len(bytes), 0, 0, <<>>, FALSE)
      /\ pre' = list
      /\ UNCHANGED list

\* mutant: the null test comes before Clear()
DeserializeNullKeepsList ==
  /\ ~file.exists
  /\ op' = Call("Deserialize", FALSE, 0, 0, <<>>, TRUE)
  /\ pre' = list
  /\ UNCHANGED <<list, file, fs>>

\* Deserialize(nullptr): Clear(), then throws
DeserializeNull ==
  /\ ~file.exists
  /\ list' = ClearOp(list)
  /\ op' = Call("Deserialize", FALSE, 0, 0, <<>>, TRUE)
  /\ pre' = list
  /\ UNCHANGED <<file, fs>>

\* Deserialize on the pending file
Deserialize ==
  /\ file.exists
  /\ \E cleared \in {ClearOp(list)}, r \in {ReadStream(file.bytes)} :
        IF ~r.ok
        THEN \* the exception unwinds: the nodes read so far are freed with tempNodes
             /\ list' = cleared
             /\ op' = Call("Deserialize", FALSE, 0, 0, <<>>, FALSE)
        ELSE /\ r.newCount <= MaxNodes
             /\ \E rawNodes \in AllocOrders(DOMAIN cleared.heap, r.newCount) :
                  list' = LinkList(cleared, r, rawNodes)
             /\ op' = Call("Deserialize", TRUE, 0, 0, <<>>, FALSE)
  /\ pre' = list
  /\ UNCHANGED <<file, fs>>

\* offset of the cross-index field of record i (0-based) of a complete file
RandFieldOffset(src, i) ==
  LET RECURSIVE EndOf(_)
      EndOf(k) == IF k = 0 THEN 4 ELSE EndOf(k - 1) + 8 + Len(src[k].data)
  IN EndOf(i) + 4 + Len(src[i + 1].data)

\* the driver damages the pending file: record i now holds cross index k
Corrupt(i, k) ==
  /\ file.exists
  /\ fs.complete
  /\ ~fs.damaged
  /\ i < Len(fs.src)
  /\ k # fs.stored[i + 1]
  /\ LET off == RandFieldOffset(fs.src, i)
         four == I32Bytes(k)
     IN file' = [file EXCEPT !.bytes =
                   [p \in 1..Len(file.bytes) |->
                      IF p > off /\ p <= off + 4 THEN four[p - off] ELSE file.bytes[p]]]
  /\ fs' = [fs EXCEPT !.stored[i + 1] = k, !.damaged = TRUE]
  /\ op' = Call("Corrupt", TRUE, i, k, <<>>, FALSE)
  /\ pre' = list
  /\ UNCHANGED list

\* the driver removes the pending file
RemoveFile ==
  /\ file.exists
  /\ file' = NoFile
  /\ fs' = NoFs
  /\ op' = Call("RemoveFile", TRUE, 0, 0, <<>>, FALSE)
  /\ pre' = list
  /\ UNCHANGED list

Next ==
  \/ \E data \in Payloads : AddNode(data)
  \/ \E nodeIndex \in RandArgs, randIndex \in RandArgs : SetRand(nodeIndex, randIndex)
  \/ Clear
  \/ SerializeNull
  \/ Serialize
  \/ DeserializeNull
  \/ Deserialize
  \/ \E i \in 0..(MaxNodes - 1) : \E k \in CorruptIdx(Len(fs.src)) : Corrupt(i, k)
  \/ RemoveFile

Spec == Init /\ [][Next]_vars

\* ------------------------------------------------------------------ claims

Range(seq) == {seq[k] : k \in 1..Len(seq)}

\* the last step was a Deserialize of the pending file that returned normally
DeserializeReturned == op.name = "Deserialize" /\ ~op.null /\ op.ok

\* the cross reference a stored index k stands for in a list of n nodes
Resolved(k, n) == IF 0 <= k /\ k < n THEN k ELSE -1

\* C1: round trip.  Deserialize of the bytes a complete Serialize wrote (untouched
\* since) leaves a list with the count of the serialized list, the same payload
\* at every position, and at every position a cross reference that is absent iff
\* it was absent and otherwise is the node at the position the original pointed to.
C1_RoundTrip ==
  (DeserializeReturned /\ fs.complete /\ ~fs.damaged) =>
     /\ list.count = Len(fs.src)
     /\ Len(View(list)) = Len(fs.src)
     /\ \A k \in 1..Len(fs.src) :
          /\ View(list)[k].data = fs.src[k].data
          /\ (View(list)[k].rand = -1) <=> (fs.src[k].rand = -1)
          /\ View(list)[k].rand = fs.src[k].rand
          /\ fs.src[k].rand # -1 =>
               View(list)[View(list)[k].rand + 1].data = fs.src[fs.src[k].rand + 1].data

\* a full list with distinct payloads, a mutual cycle between the first two nodes,
\* read back into a list that held something else (it had been cleared)
C1_Witness ==
  /\ DeserializeReturned /\ fs.complete /\ ~fs.damaged
  /\ Len(fs.src) = MaxNodes
  /\ \A x, y \in 1..Len(fs.src) : x # y => fs.src[x].data # fs.src[y].data
  /\ fs.src[1].rand = 1 /\ fs.src[2].rand = 0
  /\ pre.count = 0

\* C2: a Serialize that returns normally has written exactly the count n, then per
\* node in head-to-tail order its payload length, its payload (no bytes when the
\* length is 0) and its cross index: -1 when rand is absent, otherwise the 0-based
\* position of the node rand points to; every cross index is in {-1} \cup [0, n).
C2_SerializeFormat ==
  (op.name = "Serialize" /\ op.ok) =>
     LET c == Chain(list)
         n == Len(c)
         r == ReadStream(file.bytes)
         RECURSIVE Size(_)
         Size(k) == IF k = 0 THEN 4 ELSE Size(k - 1) + 8 + Len(list.heap[c[k]].data)
     IN /\ r.ok
        /\ r.newCount = n
        /\ U32At(file.bytes, 0) = list.count
        /\ Len(r.datas) = n /\ Len(r.randIndices) = n
        /\ Len(file.bytes) = Size(n)
        /\ \A k \in 1..n :
             /\ r.datas[k] = list.heap[c[k]].data
             /\ r.randIndices[k] \in {-1} \cup (0..(n - 1))
             /\ (list.heap[c[k]].rand = NULL) <=> (r.randIndices[k] = -1)
             /\ list.heap[c[k]].rand # NULL => c[r.randIndices[k] + 1] = list.heap[c[k]].rand

\* a full list written with an empty payload, an absent cross reference and a
\* cross reference to a later node
C2_Witness ==
  /\ op.name = "Serialize" /\ op.ok
  /\ list.count = MaxNodes
  /\ \E k \in 1..Len(View(list)) : View(list)[k].rand = -1
  /\ \E k \in 1..Len(View(list)) : View(list)[k].rand = MaxNodes - 1
  /\ \E k \in 1..Len(View(list)) : View(list)[k].data = <<>>

\* C3: a Deserialize of a complete stream of n records never fails, whatever the
\* stored cross indices; the decoded node at position i has rand = the node at
\* position k when the stored index k of record i is in [0, n), and no rand for
\* every other stored value.
C3_StoredIndexResolution ==
  /\ (op.name = "Deserialize" /\ ~op.null /\ fs.complete) => op.ok
  /\ (DeserializeReturned /\ fs.complete) =>
        /\ Len(Chain(list)) = Len(fs.stored)
        /\ \A k \in 1..Len(fs.stored) :
             LET c == Chain(list)
                 idx == fs.stored[k]
             IN list.heap[c[k]].rand =
                  (IF 0 <= idx /\ idx < Len(fs.stored) THEN c[idx + 1] ELSE NULL)

\* read back with one stored index at or above n beside one in range
C3_Witness ==
  /\ DeserializeReturned /\ fs.complete /\ fs.damaged
  /\ Len(fs.stored) = MaxNodes
  /\ \E k \in 1..Len(fs.stored) : fs.stored[k] >= Len(fs.stored)
  /\ \E k \in 1..Len(fs.stored) : fs.stored[k] \in 0..(Len(fs.stored) - 1)

\* C4: Deserialize is a full replace.  After it returned normally on a stream
\* declaring n records the count is n, head is the first decoded node and tail
\* the last (both null when n = 0), payloads and cross references are those of
\* the stream, and the list owns the n decoded nodes and nothing else.
C4_FullReplace ==
  DeserializeReturned =>
     LET c == Chain(list)
         n == Len(fs.src)
     IN /\ list.count = n
        /\ Len(c) = n
        /\ (n = 0 => list.head = NULL /\ list.tail = NULL)
        /\ (n > 0 => list.head = c[1] /\ list.tail = c[n])
        /\ View(list) = [k \in 1..n |->
                           [data |-> fs.src[k].data, rand |-> Resolved(fs.stored[k], n)]]
        /\ DOMAIN list.heap = Range(c)

\* a non-empty list replaced by the content of a stream that differs from it
C4_Witness ==
  /\ DeserializeReturned
  /\ pre.count > 0
  /\ list.count > 0
  /\ View(pre) # View(list)

\* C5: SetRand(i, j) with i or j outside [0, count) changes nothing.
C5_SetRandOutOfRange ==
  (op.name = "SetRand"
     /\ (op.i < 0 \/ op.i >= pre.count \/ op.j < 0 \/ op.j >= pre.count)) =>
     list = pre

\* a valid node index with a rand index = count, on a node that has a cross reference
C5_Witness ==
  /\ op.name = "SetRand"
  /\ pre.count > 0
  /\ op.i \in 0..(pre.count - 1)
  /\ op.j = pre.count
  /\ View(pre)[op.i + 1].rand # -1

\* C6: AddNode(payload) appends at the tail: count grows by one, the new node is
\* last in the traversal with the given payload and no cross reference, and the
\* place, payload and cross reference of every earlier node are as before.
C6_AddNodeAppends ==
  op.name = "AddNode" =>
     /\ list.count = pre.count + 1
     /\ Len(Chain(list)) = Len(Chain(pre)) + 1
     /\ SubSeq(Chain(list), 1, Len(Chain(pre))) = Chain(pre)
     /\ list.tail = Chain(list)[Len(Chain(list))]
     /\ list.tail \notin DOMAIN pre.heap
     /\ View(list) = Append(View(pre), [data |-> op.data, rand |-> -1])
     /\ \A a \in DOMAIN pre.heap :
          /\ list.heap[a].data = pre.heap[a].data
          /\ list.heap[a].rand = pre.heap[a].rand

\* appended to a non-empty list whose nodes carry cross references
C6_Witness ==
  /\ op.name = "AddNode"
  /\ pre.count > 0
  /\ list.count = MaxNodes
  /\ View(list)[1].rand = 0
  /\ View(list)[1].data # op.data

\* C7: in every state the count equals the number of nodes met from head by next.
C7_CountMatchesChain == list.count = Len(Chain(list))

\* a full list left by a Deserialize that replaced a shorter one
C7_Witness ==
  /\ op.name = "Deserialize" /\ op.ok
  /\ list.count = MaxNodes
  /\ pre.count < MaxNodes

\* C8: in every state the next-chain from head has no repeated node, ends at tail,
\* and prev is its exact reverse.
C8_ChainWellFormed ==
  LET c == Chain(list)
      n == Len(c)
  IN /\ \A x, y \in 1..n : x # y => c[x] # c[y]
     /\ Range(c) \subseteq DOMAIN list.heap
     /\ (n = 0 => list.head = NULL /\ list.tail = NULL)
     /\ (n > 0 => list.head = c[1] /\ list.tail = c[n])
     /\ \A k \in 1..n :
          /\ list.heap[c[k]].prev = (IF k > 1 THEN c[k - 1] ELSE NULL)
          /\ list.heap[c[k]].next = (IF k < n THEN c[k + 1] ELSE NULL)

\* links rebuilt by Deserialize for a full list
C8_Witness ==
  /\ DeserializeReturned
  /\ list.count = MaxNodes
  /\ list.heap[list.tail].prev # NULL
  /\ list.heap[list.head].next # NULL

\* C9: a Deserialize of a stream that ends early (a proper prefix of what Serialize
\* writes) fails; it never returns normally.
C9_ShortReadFails ==
  (op.name = "Deserialize" /\ ~op.null /\ ~fs.complete) => ~op.ok

\* the stream ends inside the payload of the second record
C9_Witness ==
  /\ op.name = "Deserialize" /\ ~op.null /\ ~fs.complete /\ ~op.ok
  /\ Len(fs.src) = MaxNodes
  /\ Len(fs.src[2].data) = 2
  /\ Len(file.bytes) = 4 + 8 + Len(fs.src[1].data) + 4 + 1

\* C10: whenever Deserialize fails (null stream or short read) the list is left
\* empty: count 0, head and tail null, no node owned.
C10_FailureLeavesEmpty ==
  (op.name = "Deserialize" /\ ~op.ok) =>
     /\ list.count = 0
     /\ list.head = NULL
     /\ list.tail = NULL
     /\ DOMAIN list.heap = {}

\* a short read after one complete record, on a list that held nodes
C10_Witness ==
  /\ op.name = "Deserialize" /\ ~op.ok /\ ~op.null
  /\ pre.count > 0
  /\ Len(fs.src) = MaxNodes
  /\ Len(file.bytes) > 4 + 8 + Len(fs.src[1].data)

\* the null-stream case of C10
C10_NullWitness ==
  /\ op.name = "Deserialize" /\ ~op.ok /\ op.null
  /\ pre.count > 0

====
